---------------------------- MODULE Spec2Model ----------------------------
(***************************************************************************)
(* A model of the research-gap analysis backend:                           *)
(*   src/research_analyzer.py                   (class ResearchAnalyzer)   *)
(*   src/AI for research gaps/backend/app.py    (the Flask endpoints)      *)
(*                                                                         *)
(* Representation of Python values.                                        *)
(*   - A str is a sequence of atoms.  An atom is a one-character string,   *)
(*     or a literal piece of an f-string template (such as                 *)
(*     "Research on "), or the atom Pad that stands for a run of PadLen    *)
(*     characters "#".  Strings that come from outside (queries, titles    *)
(*     returned by a source) are spelled with one-character atoms and Pad  *)
(*     only, over an alphabet that cannot spell a template literal, so two *)
(*     strings are equal exactly when their atom sequences are equal.      *)
(*   - An abstract is represented by its length in characters: the code    *)
(*     reads an abstract's length and truncates it; its words are read     *)
(*     only by extract_keywords, which is modelled on character sequences  *)
(*     and whose result on the joined abstracts is an input of             *)
(*     analyze_trends.                                                     *)
(*   - A published string is represented by the years its first \d{4}      *)
(*     match yields: <<>> or <<year>>.                                     *)
(*   - A value that is not always a str carries a tag t: "null" for None,  *)
(*     "absent" for a missing dict key, "str", "int", "list", "dict".      *)
(*   - An optional value is <<>> or <<value>>.                             *)
(*   - The random module is a generator seeded with rnd; draw k of a range *)
(*     yields one of the range's two ends.                                 *)
(*   - The fields id, authors and url of a paper record and the timestamps *)
(*     of the results are written once and never read; the model keeps the *)
(*     fields that are read: title, abstract, published, source,           *)
(*     citations, fields.                                                  *)
(***************************************************************************)
EXTENDS Integers, Sequences, FiniteSets, TLC

VARIABLES
    \* ---- one request through the endpoints and the analyzer
    pc,          \* "idle", "ss", "arxiv", "merge", "done" ("off" in the other runs)
    entry,       \* "api_analyze", "api_search" or "search_all_sources" (a direct call)
    httpReq,     \* the HTTP request: [is_json, body]
    curQuery,    \* the query argument of the analyzer calls
    maxPer,      \* max_per_source
    rnd,         \* the seed of the random module
    ssOut,       \* what search_semantic_scholar returned: <<>> or <<[papers, mocked]>>
    axOut,       \* what search_arxiv_simple returned: <<>> or <<[papers]>>
    all_papers,  \* search_all_sources: all_papers
    calls,       \* the analyzer methods invoked so far, in order
    result,      \* what search_all_sources did: <<>> or <<[raised, papers, exc]>>
    analysis,    \* what generate_comprehensive_analysis returned: <<>> or <<dict>>
    response,    \* the HTTP response: <<>> or <<[status, body]>>
    \* ---- identify_gaps, called on its own
    gQuery,      \* the query argument
    gPapers,     \* the papers argument
    gResult,     \* <<>> before the call, then << the returned dict >>
    \* ---- extract_keywords, called on its own
    kText,       \* the text argument
    kNum,        \* the num_keywords argument
    kResult,     \* <<>> before the call, then << the returned list >>
    \* ---- analyze_trends, called on its own
    tPapers,     \* the papers argument
    tResult      \* <<>> before the call, then << the returned dict >>

mainVars == <<pc, entry, httpReq, curQuery, maxPer, rnd, ssOut, axOut, all_papers, calls,
              result, analysis, response>>
gapVars == <<gQuery, gPapers, gResult>>
kwVars == <<kText, kNum, kResult>>
trendVars == <<tPapers, tResult>>
vars == <<mainVars, gapVars, kwVars, trendVars>>

-----------------------------------------------------------------------------
(* Bounds of the model *)

\* the longest query of the identify_gaps runs, in vocabulary words
MaxQueryWords == 2
\* the longest text of the extract_keywords runs, in vocabulary words
MaxTextWords == 3
\* the largest num_keywords of the extract_keywords runs
MaxNum == 5
\* the largest max_per_source of a direct call of search_all_sources
MaxPerSource == 2
\* the most papers a source answers with
MaxEntries == 2
\* the seeds of the random module are 0..MaxSeed
MaxSeed == 1
\* the length of the run of characters the atom Pad stands for
PadLen == 200
\* datetime.now().year
NowYear == 2026
\* the longest papers argument of the analyze_trends runs
MaxTrendPapers == 2

-----------------------------------------------------------------------------
(* Python str primitives *)

UpperCase ==
    [A |-> "a", B |-> "b", C |-> "c", D |-> "d", E |-> "e", F |-> "f", G |-> "g",
     H |-> "h", I |-> "i", J |-> "j", K |-> "k", L |-> "l", M |-> "m", N |-> "n",
     O |-> "o", P |-> "p", Q |-> "q", R |-> "r", S |-> "s", T |-> "t", U |-> "u",
     V |-> "v", W |-> "w", X |-> "x", Y |-> "y", Z |-> "z"]

LowerCaseLetters == {UpperCase[c] : c \in DOMAIN UpperCase}

\* str.lower() on one character
LowerChar(c) == IF c \in DOMAIN UpperCase THEN UpperCase[c] ELSE c

\* the atom that stands for PadLen characters "#"
Pad == "#..#"

\* the literal pieces of the title templates and the domain names, lowercased
LiteralLower ==
    "Research on " :> "research on " @@
    "Advances in " :> "advances in " @@
    " and " :> " and " @@
    "Novel Approaches to " :> "novel approaches to " @@
    ": A Comprehensive Study" :> ": a comprehensive study" @@
    " in Modern " :> " in modern " @@
    " Applications" :> " applications" @@
    "Future Directions in " :> "future directions in " @@
    " Research" :> " research" @@
    "Experimental Analysis of " :> "experimental analysis of " @@
    " Using Advanced Methods" :> " using advanced methods" @@
    "Machine Learning" :> "machine learning" @@
    "Artificial Intelligence" :> "artificial intelligence" @@
    "Data Science" :> "data science" @@
    "Biotechnology" :> "biotechnology" @@
    "Renewable Energy" :> "renewable energy" @@
    "Quantum Computing" :> "quantum computing" @@
    "Neuroscience" :> "neuroscience" @@
    "Climate Science" :> "climate science" @@
    "Biomedical Engineering" :> "biomedical engineering"

\* str.lower() on one atom
LowerAtom(a) == IF a \in DOMAIN LiteralLower THEN LiteralLower[a] ELSE LowerChar(a)

\* str.lower()
Lower(s) == [i \in 1..Len(s) |-> LowerAtom(s[i])]

\* len(s), for a str of one-character atoms and Pad
RECURSIVE StrLen(_)
StrLen(s) ==
    IF s = <<>> THEN 0
    ELSE (IF Head(s) = Pad THEN PadLen ELSE 1) + StrLen(Tail(s))

\* str.strip()
RECURSIVE LStrip(_)
LStrip(s) == IF s # <<>> /\ Head(s) = " " THEN LStrip(Tail(s)) ELSE s

RECURSIVE RStrip(_)
RStrip(s) == IF s # <<>> /\ s[Len(s)] = " " THEN RStrip(SubSeq(s, 1, Len(s) - 1)) ELSE s

Strip(s) == RStrip(LStrip(s))

\* min(a, b)
Min(a, b) == IF a < b THEN a ELSE b

\* Python's  w in s  for strings: a left-to-right scan for the first match
RECURSIVE FindFrom(_, _, _)
FindFrom(s, w, i) ==
    IF i + Len(w) - 1 > Len(s) THEN 0
    ELSE IF SubSeq(s, i, i + Len(w) - 1) = w THEN i
    ELSE FindFrom(s, w, i + 1)

StrContains(s, w) == FindFrom(s, w, 1) # 0

\* any(word in s for word in words)
AnyWordIn(words, s) == \E k \in 1..Len(words) : StrContains(s, words[k])

\* the concatenation of a sequence of strings, sep between them (sep.join)
RECURSIVE Join(_, _)
Join(parts, sep) ==
    IF parts = <<>> THEN <<>>
    ELSE IF Len(parts) = 1 THEN parts[1]
    ELSE parts[1] \o sep \o Join(Tail(parts), sep)

\* all sequences over S of length at most n
RECURSIVE SeqsUpTo(_, _)
SeqsUpTo(S, n) ==
    IF n = 0 THEN {<<>>}
    ELSE LET shorter == SeqsUpTo(S, n - 1)
         IN  shorter \cup {Append(s, x) : s \in {t \in shorter : Len(t) = n - 1}, x \in S}

\* lst[:n]
Take(lst, n) == SubSeq(lst, 1, Min(Len(lst), n))

-----------------------------------------------------------------------------
(* Python values that are not always a str: tagged *)

PyNone == [t |-> "null"]
Missing == [t |-> "absent"]
PyStr(s) == [t |-> "str", v |-> s]
PyInt(n) == [t |-> "int", v |-> n]
PyList(l) == [t |-> "list", v |-> l]
\* a str of which only the length is kept (an abstract)
PyText(n) == [t |-> "str", len |-> n]
\* a published str, by the years its first \d{4} match yields
PyDate(years) == [t |-> "str", years |-> years]

\* a paper record as the source clients and the mock generator build it
Paper(title, abstract, published, source, citations, fields) ==
    [t |-> "dict", title |-> title, abstract |-> abstract, published |-> published,
     source |-> source, citations |-> citations, fields |-> fields]

\* an exception, and the absence of one
Exc(type, msg) == [type |-> type, msg |-> msg]
NoExc == Exc("", "")

\* random.randint(lo, hi), draw k of the generator seeded with seed
Rand(seed, lo, hi, k) == IF (seed + k) % 2 = 0 THEN lo ELSE hi

-----------------------------------------------------------------------------
(* _generate_mock_papers *)

domains ==
    << "Machine Learning", "Artificial Intelligence", "Data Science",
       "Biotechnology", "Renewable Energy", "Quantum Computing",
       "Neuroscience", "Climate Science", "Biomedical Engineering" >>

\* len(domain) of each
DomainLen == <<16, 23, 12, 13, 16, 17, 12, 15, 22>>

\* random.choice(domains): an index
selected_domain(seed) == (seed % Len(domains)) + 1

mock_titles(query, d) ==
    << <<"Advances in ">> \o query \o <<" and ", domains[d]>>,
       <<"Novel Approaches to ">> \o query \o <<": A Comprehensive Study">>,
       query \o <<" in Modern ", domains[d], " Applications">>,
       <<"Future Directions in ">> \o query \o <<" Research">>,
       <<"Experimental Analysis of ">> \o query \o <<" Using Advanced Methods">> >>

\* the lengths of the five abstract templates without {query} and {selected_domain}
MockAbstractFixedLen == <<236, 227, 209, 238, 227>>

\* len(mock_abstracts[i]): the f-strings are not cut
mock_abstract_len(query, d, i) ==
    MockAbstractFixedLen[i] + StrLen(query) + (IF i = 3 THEN DomainLen[d] ELSE 0)

generate_mock_papers(query, count, seed) ==
    LET d == selected_domain(seed)
    IN  [i \in 1..Min(count, Len(mock_titles(query, d))) |->
            Paper(PyStr(mock_titles(query, d)[i]),
                  mock_abstract_len(query, d, i),
                  PyDate(<<NowYear - Rand(seed, 0, 5, i)>>),
                  "Research Database",
                  PyInt(Rand(seed, 5, 250, i)),
                  PyList(<<domains[d], "Research Methodology", "Applied Science">>))]

-----------------------------------------------------------------------------
(* search_semantic_scholar *)

\* abstract[:400]
AbstractLimit == 400
\* len(abstract) < 50
MinAbstractLen == 50
\* the length of the replacement abstract without {query}
SSTemplateLen == 129

\* the loop body raises on this element of data['data']: paper.get on a
\* non-dict, or iterating authors that is None
SSEntryRaises(e) == e.t # "dict" \/ e.authors.t = "null"

\* the record appended for element e, the i-th of the loop
SSPaper(e, query, seed, i) ==
    LET abstract ==
            IF e.abstract.t = "str" /\ e.abstract.len >= MinAbstractLen
            THEN e.abstract.len
            ELSE SSTemplateLen + StrLen(query)
    IN  Paper(IF e.title.t = "absent" THEN PyStr(<<"Research on ">> \o query) ELSE e.title,
              Min(abstract, AbstractLimit),
              IF e.year.t = "absent" THEN PyDate(<<NowYear - Rand(seed, 0, 3, i)>>)
              ELSE IF e.year.t = "int" THEN PyDate(<<e.year.v>>) ELSE PyDate(<<>>),
              "Semantic Scholar",
              IF e.citationCount.t = "absent" THEN PyInt(Rand(seed, 1, 200, i))
              ELSE e.citationCount,
              IF e.fieldsOfStudy.t = "absent" THEN PyList(<<>>) ELSE e.fieldsOfStudy)

\* the try block raises: requests.get raises, response.json() raises, the JSON
\* value is no dict, data['data'] is None, or the loop body raises
SSRaises(resp, max_results) ==
    \/ resp.kind \in {"exception", "badjson"}
    \/ /\ resp.kind = "json"
       /\ \/ resp.body.t # "dict"
          \/ /\ resp.body.t = "dict"
             /\ \/ resp.body.data.t = "null"
                \/ /\ resp.body.data.t = "list"
                   /\ \E i \in 1..Min(Len(resp.body.data.v), max_results) :
                         SSEntryRaises(resp.body.data.v[i])

\* the papers of a 200 answer whose processing does not raise
SSParsed(resp, query, max_results, seed) ==
    LET data == IF resp.body.data.t = "absent" THEN <<>> ELSE resp.body.data.v
    IN  [i \in 1..Min(Len(data), max_results) |-> SSPaper(data[i], query, seed, i)]

\* what the function returns on resp, and whether it came from the mock generator
search_semantic_scholar_EmptyToMock(query, max_results, resp, seed) ==
    IF resp.kind = "status" \/ SSRaises(resp, max_results)
       \/ SSParsed(resp, query, max_results, seed) = <<>>
    THEN [papers |-> generate_mock_papers(query, max_results, seed), mocked |-> TRUE]
    ELSE [papers |-> SSParsed(resp, query, max_results, seed), mocked |-> FALSE]

search_semantic_scholar(query, max_results, resp, seed) ==
    IF resp.kind = "status" \/ SSRaises(resp, max_results)
    THEN [papers |-> generate_mock_papers(query, max_results, seed), mocked |-> TRUE]
    ELSE [papers |-> SSParsed(resp, query, max_results, seed), mocked |-> FALSE]

-----------------------------------------------------------------------------
(* search_arxiv_simple *)

\* len("Study focusing on ")
ArxivTemplateLen == 18

\* the record appended for one <entry> block, the i-th of the loop
ArxivPaper(e, query, seed, i) ==
    Paper(IF e.title.t = "absent" THEN PyStr(<<"Research on ">> \o query) ELSE e.title,
          Min(IF e.summary.t = "absent" THEN ArxivTemplateLen + StrLen(query)
              ELSE e.summary.len,
              AbstractLimit),
          IF e.published.t = "absent" THEN PyDate(<<NowYear>>) ELSE e.published,
          "arXiv",
          PyInt(Rand(seed, 10, 300, i)),
          PyList(<<"Physics", "Computer Science", "Mathematics">>))

search_arxiv_simple_NoLimit(query, max_results, resp, seed) ==
    IF resp.kind # "text" THEN <<>>
    ELSE [i \in 1..Len(resp.entries) |-> ArxivPaper(resp.entries[i], query, seed, i)]

search_arxiv_simple(query, max_results, resp, seed) ==
    IF resp.kind # "text" THEN <<>>
    ELSE [i \in 1..Min(Len(resp.entries), max_results) |->
             ArxivPaper(resp.entries[i], query, seed, i)]

-----------------------------------------------------------------------------
(* search_all_sources, after the two source calls *)

\* title_lower = paper['title'].lower()
title_lower_NoLower(paper) == paper.title.v

title_lower(paper) == Lower(paper.title.v)

\* the deduplication loop keeping the last record of a title, not the first
RECURSIVE unique_papers_KeepLast(_, _, _)
unique_papers_KeepLast(papers, seen, acc) ==
    IF papers = <<>> THEN acc
    ELSE IF \E i \in 2..Len(papers) : title_lower(papers[i]) = title_lower(Head(papers))
         THEN unique_papers_KeepLast(Tail(papers), seen, acc)
         ELSE unique_papers_KeepLast(Tail(papers), seen \cup {title_lower(Head(papers))},
                                     Append(acc, Head(papers)))

\* the deduplication loop: seen is seen_titles, acc is unique_papers
RECURSIVE unique_papers(_, _, _)
unique_papers(papers, seen, acc) ==
    IF papers = <<>> THEN acc
    ELSE IF title_lower(Head(papers)) \in seen
         THEN unique_papers(Tail(papers), seen, acc)
         ELSE unique_papers(Tail(papers), seen \cup {title_lower(Head(papers))},
                            Append(acc, Head(papers)))

\* .lower() on a title that is no str
TitleError == Exc("AttributeError", "'NoneType' object has no attribute 'lower'")

\* lines 199-214 with the fallback taken whenever a source came back empty-handed
search_all_tail_FallbackWhenFew(papers, query, max_per_source, seed) ==
    LET all == IF Len(papers) < max_per_source
               THEN generate_mock_papers(query, max_per_source * 2, seed)
               ELSE papers
    IN  IF \E i \in 1..Len(all) : all[i].title.t # "str"
        THEN [raised |-> TRUE, papers |-> <<>>, exc |-> TitleError]
        ELSE [raised |-> FALSE,
              papers |-> Take(unique_papers(all, {}, <<>>), max_per_source * 2),
              exc |-> NoExc]

\* lines 199-214: the mock fallback, the deduplication and the cut
search_all_tail(papers, query, max_per_source, seed) ==
    LET all == IF papers = <<>>
               THEN generate_mock_papers(query, max_per_source * 2, seed)
               ELSE papers
    IN  IF \E i \in 1..Len(all) : all[i].title.t # "str"
        THEN [raised |-> TRUE, papers |-> <<>>, exc |-> TitleError]
        ELSE [raised |-> FALSE,
              papers |-> Take(unique_papers(all, {}, <<>>), max_per_source * 2),
              exc |-> NoExc]

-----------------------------------------------------------------------------
(* extract_keywords *)

\* self.common_words
common_words ==
    { <<"r", "e", "s", "e", "a", "r", "c", "h">>,
      <<"p", "a", "p", "e", "r">>,
      <<"s", "t", "u", "d", "y">>,
      <<"m", "e", "t", "h", "o", "d">>,
      <<"r", "e", "s", "u", "l", "t">>,
      <<"a", "n", "a", "l", "y", "s", "i", "s">>,
      <<"d", "a", "t", "a">>,
      <<"u", "s", "i", "n", "g">>,
      <<"b", "a", "s", "e", "d">>,
      <<"a", "p", "p", "r", "o", "a", "c", "h">>,
      <<"s", "h", "o", "w">>,
      <<"p", "r", "o", "p", "o", "s", "e">>,
      <<"p", "r", "e", "s", "e", "n", "t">>,
      <<"d", "e", "v", "e", "l", "o", "p">>,
      <<"i", "n", "v", "e", "s", "t", "i", "g", "a", "t", "e">> }

KeywordFallbackShort == << <<"r", "e", "s", "e", "a", "r", "c", "h">>, <<"a", "n", "a", "l", "y", "s", "i", "s">>, <<"s", "t", "u", "d", "y">>, <<"m", "e", "t", "h", "o", "d", "o", "l", "o", "g", "y">> >>
KeywordFallbackEmpty == << <<"r", "e", "s", "e", "a", "r", "c", "h">>, <<"a", "n", "a", "l", "y", "s", "i", "s">>, <<"m", "e", "t", "h", "o", "d">>, <<"a", "p", "p", "l", "i", "c", "a", "t", "i", "o", "n">> >>

Digits == {"0", "1", "2", "3", "4", "5", "6", "7", "8", "9"}
Whitespace == {" "}
IsLetter(c) == c \in LowerCaseLetters \/ c \in DOMAIN UpperCase
\* the regex class \w
IsWordChar(c) == IsLetter(c) \/ c \in Digits \/ c = "_"

\* re.sub(r'[^\w\s]', ' ', text.lower())
CleanText(text) ==
    [i \in 1..Len(text) |->
        LET c == LowerChar(text[i])
        IN  IF IsWordChar(c) \/ c \in Whitespace THEN c ELSE " "]

\* the maximal runs of \w characters of s, in order; run is the run being read
RECURSIVE WordRuns(_, _, _)
WordRuns(s, i, run) ==
    IF i > Len(s) THEN (IF run = <<>> THEN <<>> ELSE <<run>>)
    ELSE IF IsWordChar(s[i]) THEN WordRuns(s, i + 1, Append(run, s[i]))
    ELSE (IF run = <<>> THEN <<>> ELSE <<run>>) \o WordRuns(s, i + 1, <<>>)

\* re.findall(r'\b[a-zA-Z]{4,}\b', text): \b holds only at the two ends of a
\* maximal run of \w characters, so a match is a whole run, made of at least
\* MinWordLen letters
MinWordLen == 4

FindWords(s) ==
    SelectSeq(WordRuns(s, 1, <<>>),
              LAMBDA w : Len(w) >= MinWordLen /\ \A k \in 1..Len(w) : IsLetter(w[k]))

\* the keys of Counter(words), in insertion order
RECURSIVE FirstSeen(_)
FirstSeen(words) ==
    IF words = <<>> THEN <<>>
    ELSE LET init == FirstSeen(SubSeq(words, 1, Len(words) - 1))
             w == words[Len(words)]
         IN  IF \E k \in 1..Len(init) : init[k] = w THEN init ELSE Append(init, w)

CountOf(w, words) == Cardinality({k \in 1..Len(words) : words[k] = w})

\* Counter.most_common(n): the n largest counts, ties in insertion order
RECURSIVE MostCommon(_, _, _)
MostCommon(keys, words, n) ==
    IF n <= 0 \/ keys = <<>> THEN <<>>
    ELSE LET best == CHOOSE k \in 1..Len(keys) :
                        /\ \A j \in 1..Len(keys) : CountOf(keys[j], words) <= CountOf(keys[k], words)
                        /\ \A j \in 1..(k - 1) : CountOf(keys[j], words) < CountOf(keys[k], words)
             rest == [j \in 1..(Len(keys) - 1) |-> IF j < best THEN keys[j] ELSE keys[j + 1]]
         IN  <<keys[best]>> \o MostCommon(rest, words, n - 1)

\* word_counts.most_common(num_keywords)
most_common_Unlimited(words, num_keywords) == MostCommon(FirstSeen(words), words, Len(words))

most_common(words, num_keywords) == MostCommon(FirstSeen(words), words, num_keywords)

MinTextLen == 20

extract_keywords(text, num_keywords) ==
    IF Len(text) = 0 \/ Len(text) < MinTextLen THEN KeywordFallbackShort
    ELSE LET words == FindWords(CleanText(text))
             filtered_words == SelectSeq(words, LAMBDA w : w \notin common_words)
         IN  IF filtered_words = <<>> THEN KeywordFallbackEmpty
             ELSE most_common(filtered_words, num_keywords)

-----------------------------------------------------------------------------
(* analyze_trends *)

\* the try block raises on this element of papers: p.get on a non-dict, sum()
\* over a citations value that is no number, re.search on a published value that
\* is no str, or iterating a fields value that is None
TrendPaperRaises(p) ==
    \/ p.t # "dict"
    \/ /\ p.t = "dict"
       /\ \/ p.citations.t \notin {"int", "absent"}
          \/ p.published.t \notin {"str", "absent", "null"}
          \/ p.fields.t \notin {"list", "absent"}

\* len(all_text): the non-empty abstracts, one space between them
AllTextLen(papers) ==
    LET idx == {i \in 1..Len(papers) : papers[i].abstract > 0}
        RECURSIVE Sum(_)
        Sum(S) == IF S = {} THEN 0
                  ELSE LET i == CHOOSE i \in S : TRUE
                       IN  papers[i].abstract + Sum(S \ {i})
    IN  IF idx = {} THEN 0 ELSE Sum(idx) + Cardinality(idx) - 1

\* sum(citations)
RECURSIVE SumCitations(_)
SumCitations(papers) ==
    IF papers = <<>> THEN 0
    ELSE (IF Head(papers).citations.t = "int" THEN Head(papers).citations.v ELSE 0)
         + SumCitations(Tail(papers))

\* round(total / n, 1), in tenths: to nearest, ties to even
RoundTenths(total, n) ==
    LET q == (10 * total) \div n
        r == (10 * total) % n
    IN  IF 2 * r < n THEN q
        ELSE IF 2 * r > n THEN q + 1
        ELSE IF q % 2 = 0 THEN q ELSE q + 1

\* set(years)
YearsOf(papers) ==
    UNION { IF papers[i].published.t = "str"
            THEN {papers[i].published.years[k] : k \in 1..Len(papers[i].published.years)}
            ELSE {} : i \in 1..Len(papers) }

\* sorted(S, reverse=True)[:n]
RECURSIVE SortedDesc(_, _)
SortedDesc(S, n) ==
    IF S = {} \/ n = 0 THEN <<>>
    ELSE LET mx == CHOOSE x \in S : \A y \in S : y <= x
         IN  <<mx>> \o SortedDesc(S \ {mx}, n - 1)

\* set(field for p in papers for field in p.get('fields', []))
FieldsOf(papers) ==
    UNION { IF papers[i].fields.t = "list"
            THEN {papers[i].fields.v[k] : k \in 1..Len(papers[i].fields.v)}
            ELSE {} : i \in 1..Len(papers) }

\* list(set(...))[:5]: the order of a set is not fixed, any 5 may be kept
MaxTrendFields == 5

FieldChoices(papers) ==
    {fs \in SUBSET FieldsOf(papers) :
        Cardinality(fs) = Min(Cardinality(FieldsOf(papers)), MaxTrendFields)}

\* extract_keywords(all_text, 8)
TrendKeywords == 8

\* what extract_keywords(all_text, 8) can return on a text of 20 characters or more
KeywordOutcomes ==
    { extract_keywords(txt, TrendKeywords) : txt \in
        { <<"a", "n", "a", "l", "y", "s", "i", "s", " ", "r", "e", "s", "e", "a", "r", "c", "h",
            " ", "d", "a", "t", "a">>,
          <<"g", "e", "n", "e", " ", "n", "e", "t", "w", "o", "r", "k", "s", " ",
            "g", "e", "n", "e", " ", "r", "n", "a">> } }

TrendZeroState ==
    [top_keywords |-> <<>>, total_papers |-> 0, sources |-> {"Demo Data"},
     average_citations |-> 0, recent_years |-> <<>>, fields |-> <<>>]

\* the dict of the except branch; average_citations 45.5 is 455 tenths
TrendFallback_NoCount(papers) ==
    [top_keywords |-> << <<"research", 12>>, <<"analysis", 10>>, <<"method", 8>>,
                         <<"application", 6>> >>,
     total_papers |-> 0,
     sources |-> {"Research Databases"},
     average_citations |-> 455,
     recent_years |-> <<2023, 2022, 2021>>,
     fields |-> << {"Computer Science", "Engineering", "Science"} >>]

TrendFallback(papers) ==
    [top_keywords |-> << <<"research", 12>>, <<"analysis", 10>>, <<"method", 8>>,
                         <<"application", 6>> >>,
     total_papers |-> Len(papers),
     sources |-> {"Research Databases"},
     average_citations |-> 455,
     recent_years |-> <<2023, 2022, 2021>>,
     fields |-> << {"Computer Science", "Engineering", "Science"} >>]

\* kw is what extract_keywords returns on all_text when it has 20 characters or
\* more, fs the fields that list(set(...))[:5] keeps
analyze_trends(papers, kw, fs, seed) ==
    IF papers = <<>> THEN TrendZeroState
    ELSE IF \E i \in 1..Len(papers) : TrendPaperRaises(papers[i]) THEN TrendFallback(papers)
    ELSE LET keywords == IF AllTextLen(papers) < MinTextLen THEN KeywordFallbackShort ELSE kw
         IN  [top_keywords |-> [i \in 1..Len(keywords) |-> <<keywords[i], Rand(seed, 3, 25, i)>>],
              total_papers |-> Len(papers),
              sources |-> {papers[i].source : i \in 1..Len(papers)},
              average_citations |-> RoundTenths(SumCitations(papers), Len(papers)),
              recent_years |-> SortedDesc(YearsOf(papers), 3),
              fields |-> <<fs>>]

-----------------------------------------------------------------------------
(* identify_gaps *)

AITerms ==
    << <<"a", "i">>,
       <<"a", "r", "t", "i", "f", "i", "c", "i", "a", "l", " ",
         "i", "n", "t", "e", "l", "l", "i", "g", "e", "n", "c", "e">>,
       <<"m", "a", "c", "h", "i", "n", "e", " ", "l", "e", "a", "r", "n", "i", "n", "g">> >>

ClimateTerms ==
    << <<"c", "l", "i", "m", "a", "t", "e">>,
       <<"e", "n", "v", "i", "r", "o", "n", "m", "e", "n", "t">>,
       <<"s", "u", "s", "t", "a", "i", "n", "a", "b", "l", "e">> >>

HealthTerms ==
    << <<"h", "e", "a", "l", "t", "h">>,
       <<"m", "e", "d", "i", "c", "a", "l">>,
       <<"b", "i", "o", "m", "e", "d", "i", "c", "a", "l">> >>

AIGaps ==
    << <<"Lack of explainability and interpretability in AI models">>,
       <<"Ethical considerations and bias mitigation in AI systems">>,
       <<"Limited real-world deployment and scalability studies">>,
       <<"Integration of AI with traditional domain knowledge">> >>

AIDirections ==
    << <<"Developing transparent and interpretable AI systems">>,
       <<"Creating ethical frameworks for AI deployment">>,
       <<"Building robust AI systems for real-world applications">>,
       <<"Cross-disciplinary AI research with domain experts">> >>

ClimateGaps ==
    << <<"Limited long-term climate impact studies">>,
       <<"Scalability of sustainable technologies">>,
       <<"Economic feasibility of green solutions">>,
       <<"Policy implementation challenges">> >>

ClimateDirections ==
    << <<"Longitudinal climate studies">>,
       <<"Cost-effective sustainable technologies">>,
       <<"Policy-economy integration models">>,
       <<"Community-based environmental solutions">> >>

HealthGaps ==
    << <<"Personalized medicine implementation challenges">>,
       <<"Data privacy in healthcare applications">>,
       <<"Integration of traditional and modern medicine">>,
       <<"Accessibility of advanced medical technologies">> >>

HealthDirections ==
    << <<"AI-driven personalized treatment plans">>,
       <<"Secure healthcare data systems">>,
       <<"Integrative medicine approaches">>,
       <<"Affordable medical technology solutions">> >>

\* the f-strings of the else branch
GenericGaps(query) ==
    << <<"Limited interdisciplinary studies on ">> \o query,
       <<"Insufficient real-world application of ">> \o query \o <<" research">>,
       <<"Geographical and cultural bias in ">> \o query \o <<" studies">>,
       <<"Methodological limitations in current ">> \o query \o <<" research">> >>

GenericDirections(query) ==
    << <<"Cross-disciplinary approaches to ">> \o query,
       <<"Practical implementation frameworks for ">> \o query,
       <<"Global comparative studies on ">> \o query,
       <<"Novel methodologies for ">> \o query \o <<" analysis">> >>

CrossDisciplinary ==
    << <<"Integration with data science methods">>,
       <<"Application in healthcare innovation">>,
       <<"Combination with sustainable technologies">>,
       <<"Use in educational advancements">> >>

ImpactAreas ==
    << <<"Industry 4.0 and automation">>,
       <<"Healthcare and wellbeing">>,
       <<"Environmental sustainability">>,
       <<"Education and skill development">> >>

\* query_lower = query.lower()
query_lower(query) == Lower(query)

\* the if / elif / elif / else chain: the index of the branch taken
gap_bucket_HealthFirst(query) ==
    IF AnyWordIn(HealthTerms, query_lower(query)) THEN "health"
    ELSE IF AnyWordIn(ClimateTerms, query_lower(query)) THEN "climate"
    ELSE IF AnyWordIn(AITerms, query_lower(query)) THEN "ai"
    ELSE "generic"

gap_bucket(query) ==
    IF AnyWordIn(AITerms, query_lower(query)) THEN "ai"
    ELSE IF AnyWordIn(ClimateTerms, query_lower(query)) THEN "climate"
    ELSE IF AnyWordIn(HealthTerms, query_lower(query)) THEN "health"
    ELSE "generic"

identify_gaps(query, papers) ==
    LET b == gap_bucket(query)
        gaps == CASE b = "ai" -> AIGaps
                  [] b = "climate" -> ClimateGaps
                  [] b = "health" -> HealthGaps
                  [] OTHER -> GenericGaps(query)
        directions == CASE b = "ai" -> AIDirections
                        [] b = "climate" -> ClimateDirections
                        [] b = "health" -> HealthDirections
                        [] OTHER -> GenericDirections(query)
    IN  [gaps |-> Take(gaps, 4),
         directions |-> Take(directions, 4),
         cross_disciplinary |-> CrossDisciplinary,
         impact_areas |-> ImpactAreas]

-----------------------------------------------------------------------------
(* generate_comprehensive_analysis *)

\* papers[:4]
SamplePapers == 4

\* the summary of the try block; error is the missing key
AnalysisSummary(query, papers, trends, gaps_analysis) ==
    [query |-> query,
     total_papers_analyzed |-> Len(papers),
     trends |-> <<trends>>,
     gaps_analysis |-> gaps_analysis,
     sample_papers |-> Take(papers, SamplePapers),
     error |-> <<>>]

\* the dict of the except branch; trends is {} and error is str(e)
AnalysisDegraded_EmptyError(query, e) ==
    [query |-> query,
     total_papers_analyzed |-> 0,
     trends |-> <<>>,
     gaps_analysis |-> [gaps |-> << <<"Analysis temporarily unavailable">> >>,
                        directions |-> << <<"Please try again">> >>,
                        cross_disciplinary |-> <<>>,
                        impact_areas |-> <<>>],
     sample_papers |-> <<>>,
     error |-> << "" >>]

AnalysisDegraded(query, e) ==
    [query |-> query,
     total_papers_analyzed |-> 0,
     trends |-> <<>>,
     gaps_analysis |-> [gaps |-> << <<"Analysis temporarily unavailable">> >>,
                        directions |-> << <<"Please try again">> >>,
                        cross_disciplinary |-> <<>>,
                        impact_areas |-> <<>>],
     sample_papers |-> <<>>,
     error |-> << e.msg >>]

\* the function's result once search_all_sources has returned or raised (res)
generate_comprehensive_analysis(query, res, kw, fs, seed) ==
    IF res.raised THEN AnalysisDegraded(query, res.exc)
    ELSE AnalysisSummary(query, res.papers,
                         analyze_trends(res.papers, kw, fs, seed),
                         identify_gaps(query, res.papers))

-----------------------------------------------------------------------------
(* The endpoints /api/analyze and /api/search of app.py *)

\* a request body that is no JSON text
Unparseable == [t |-> "garbage"]
\* a JSON object, by its query member
JsonObject(q) == [t |-> "dict", query |-> q]

\* request.get_json() of Flask on a request declared as JSON: the parsed value, or
\* BadRequest on a body that does not parse
get_json(request) ==
    IF request.body.t = "garbage"
    THEN [raised |-> TRUE, data |-> PyNone,
          exc |-> Exc("BadRequest",
                      "400 Bad Request: The browser (or proxy) sent a request that this server could not understand.")]
    ELSE [raised |-> FALSE, data |-> request.body, exc |-> NoExc]

\* lines 39-46 and 82-88: data
ParseBody(request) ==
    IF request.is_json THEN get_json(request)
    ELSE IF request.body.t = "garbage"
         THEN [raised |-> FALSE, data |-> JsonObject(Missing), exc |-> NoExc]
         ELSE [raised |-> FALSE, data |-> request.body, exc |-> NoExc]

TypeName(v) ==
    CASE v.t = "null" -> "NoneType"
      [] v.t = "list" -> "list"
      [] v.t = "int" -> "int"
      [] OTHER -> "str"

\* query = data.get('query', '').strip()
GetQuery_NoStrip(data) ==
    IF data.t # "dict"
    THEN [raised |-> TRUE, query |-> <<>>,
          exc |-> Exc("AttributeError", "'" \o TypeName(data) \o "' object has no attribute 'get'")]
    ELSE IF data.query.t = "absent" THEN [raised |-> FALSE, query |-> <<>>, exc |-> NoExc]
    ELSE IF data.query.t = "str"
         THEN [raised |-> FALSE, query |-> data.query.v, exc |-> NoExc]
    ELSE [raised |-> TRUE, query |-> <<>>,
          exc |-> Exc("AttributeError",
                      "'" \o TypeName(data.query) \o "' object has no attribute 'strip'")]

GetQuery(data) ==
    IF data.t # "dict"
    THEN [raised |-> TRUE, query |-> <<>>,
          exc |-> Exc("AttributeError", "'" \o TypeName(data) \o "' object has no attribute 'get'")]
    ELSE IF data.query.t = "absent" THEN [raised |-> FALSE, query |-> <<>>, exc |-> NoExc]
    ELSE IF data.query.t = "str"
         THEN [raised |-> FALSE, query |-> Strip(data.query.v), exc |-> NoExc]
    ELSE [raised |-> TRUE, query |-> <<>>,
          exc |-> Exc("AttributeError",
                      "'" \o TypeName(data.query) \o "' object has no attribute 'strip'")]

\* a response; error, analysis, papers and trends are optional members
Response(status, success, error, an, papers, trends) ==
    [status |-> status, success |-> success, error |-> error, analysis |-> an,
     papers |-> papers, trends |-> trends]

StatusOK == 200
StatusBadRequest == 400
StatusServerError == 500

\* jsonify({'error': 'Query is required', 'success': False}), 400
QueryRequired == Response(StatusBadRequest, FALSE, <<"Query is required">>, <<>>, <<>>, <<>>)

\* the except branch of a handler: jsonify({'success': False, 'error': str(e)}), 500
ServerError(e) == Response(StatusServerError, FALSE, <<e.msg>>, <<>>, <<>>, <<>>)

\* lines 37-54 and 81-96: the handler up to the analyzer call.  early is the
\* response returned before the analyzer is called, if any; query is the
\* argument of the analyzer call otherwise
HandlerHead(request) ==
    LET parsed == ParseBody(request)
        got == GetQuery(parsed.data)
    IN  IF parsed.raised THEN [early |-> <<ServerError(parsed.exc)>>, query |-> <<>>]
        ELSE IF got.raised THEN [early |-> <<ServerError(got.exc)>>, query |-> <<>>]
        ELSE IF got.query = <<>> THEN [early |-> <<QueryRequired>>, query |-> <<>>]
        ELSE [early |-> <<>>, query |-> got.query]

\* max_per_source=3 in both handlers and in generate_comprehensive_analysis
ApiMaxPerSource == 3

-----------------------------------------------------------------------------
(* One request through the endpoints and the analyzer: Spec *)

\* the queries that reach the analyzer
MainQueries == { <<"a", "i">>, <<"Q", "c">>, <<"q", Pad>> }

\* the query members of the request bodies
RawQueries ==
    { <<>>, <<" ">>, <<" ", " ">>, <<" ", "a", "i", " ">>, <<"q", Pad>> }

Bodies ==
    { Unparseable, PyNone, PyList(<<>>),
      JsonObject(Missing), JsonObject(PyNone), JsonObject(PyInt(5)) }
    \cup { JsonObject(PyStr(r)) : r \in RawQueries }

Requests == [is_json : BOOLEAN, body : Bodies]

NoRequest == [is_json |-> FALSE, body |-> PyNone]

\* an element of data['data'] in the answer of the scholarly-graph source
SSEntry(title, abstract, authors, year, citationCount, fieldsOfStudy) ==
    [t |-> "dict", title |-> title, abstract |-> abstract, authors |-> authors,
     year |-> year, citationCount |-> citationCount, fieldsOfStudy |-> fieldsOfStudy]

SSEntries ==
    { SSEntry(PyStr(<<"A", "b">>), PyText(1000), PyList(<<>>), PyInt(2024), PyInt(12),
              PyList(<<"Computer Science">>)),
      SSEntry(PyStr(<<"A", "B">>), PyText(30), PyList(<<>>), PyNone, PyNone, PyNone),
      SSEntry(Missing, Missing, Missing, Missing, Missing, Missing),
      SSEntry(PyNone, PyNone, PyList(<<>>), PyInt(2020), PyInt(0), PyList(<<>>)),
      SSEntry(PyStr(<<"C", "d">>), PyText(60), PyNone, PyInt(2019), PyInt(3), PyList(<<>>)) }

SSAnswer(kind, body) == [kind |-> kind, body |-> body]

\* what requests.get and response.json() do in search_semantic_scholar
SSResponses ==
    { SSAnswer("exception", PyNone), SSAnswer("status", PyNone), SSAnswer("badjson", PyNone),
      SSAnswer("json", PyList(<<>>)),
      SSAnswer("json", [t |-> "dict", data |-> Missing]),
      SSAnswer("json", [t |-> "dict", data |-> PyNone]) }
    \cup { SSAnswer("json", [t |-> "dict", data |-> PyList(l)]) :
             l \in SeqsUpTo(SSEntries, MaxEntries) }

\* an <entry> block in the answer of the preprint source, by what the patterns match
ArxivEntry(title, summary, published) ==
    [title |-> title, summary |-> summary, published |-> published]

ArxivEntries ==
    { ArxivEntry(PyStr(<<"a", "b">>), PyText(1000), PyDate(<<2023>>)),
      ArxivEntry(Missing, Missing, PyDate(<<>>)) }

ArxivAnswer(kind, entries) == [kind |-> kind, entries |-> entries]

\* what requests.get does in search_arxiv_simple
ArxivResponses ==
    { ArxivAnswer("exception", <<>>), ArxivAnswer("status", <<>>) }
    \cup { ArxivAnswer("text", l) : l \in SeqsUpTo(ArxivEntries, MaxEntries) }

MainIdle ==
    /\ pc = "off" /\ entry = "" /\ httpReq = NoRequest /\ curQuery = <<>> /\ maxPer = 0
    /\ rnd = 0 /\ ssOut = <<>> /\ axOut = <<>> /\ all_papers = <<>> /\ calls = <<>>
    /\ result = <<>> /\ analysis = <<>> /\ response = <<>>
GapIdle == gQuery = <<>> /\ gPapers = <<>> /\ gResult = <<>>
KwIdle == kText = <<>> /\ kNum = 0 /\ kResult = <<>>
TrendIdle == tPapers = <<>> /\ tResult = <<>>

Init ==
    /\ pc = "idle" /\ entry = "" /\ httpReq = NoRequest /\ curQuery = <<>> /\ maxPer = 0
    /\ rnd \in 0..MaxSeed
    /\ ssOut = <<>> /\ axOut = <<>> /\ all_papers = <<>> /\ calls = <<>>
    /\ result = <<>> /\ analysis = <<>> /\ response = <<>>
    /\ GapIdle /\ KwIdle /\ TrendIdle

others == <<gapVars, kwVars, trendVars>>

\* a POST to ep arrives and the handler runs up to the analyzer call
Handle(ep, first_calls) ==
    /\ pc = "idle"
    /\ \E req \in Requests :
          LET h == HandlerHead(req)
          IN  /\ httpReq' = req
              /\ entry' = ep
              /\ IF h.early # <<>>
                 THEN /\ response' = h.early
                      /\ pc' = "done"
                      /\ UNCHANGED <<curQuery, maxPer, calls>>
                 ELSE /\ curQuery' = h.query
                      /\ maxPer' = ApiMaxPerSource
                      /\ calls' = first_calls
                      /\ pc' = "ss"
                      /\ UNCHANGED response
    /\ UNCHANGED <<rnd, ssOut, axOut, all_papers, result, analysis, others>>

\* POST /api/analyze: analyzer.generate_comprehensive_analysis(query)
ApiAnalyze == Handle("api_analyze", <<"generate_comprehensive_analysis", "search_all_sources">>)

\* POST /api/search: analyzer.search_all_sources(query, max_per_source=3)
ApiSearch == Handle("api_search", <<"search_all_sources">>)

\* search_all_sources(query, max_per_source) called on its own
DirectSearch ==
    /\ pc = "idle"
    /\ \E q \in MainQueries, n \in 1..MaxPerSource :
          /\ curQuery' = q
          /\ maxPer' = n
    /\ entry' = "search_all_sources"
    /\ calls' = <<"search_all_sources">>
    /\ pc' = "ss"
    /\ UNCHANGED <<httpReq, rnd, ssOut, axOut, all_papers, result, analysis, response, others>>

\* lines 184-189: the call of search_semantic_scholar, which answers resp
CallSemanticScholar ==
    /\ pc = "ss"
    /\ \E resp \in SSResponses :
          LET out == search_semantic_scholar(curQuery, maxPer, resp, rnd)
          IN  /\ ssOut' = << [papers |-> out.papers, mocked |-> out.mocked, resp |-> resp] >>
              /\ all_papers' = all_papers \o out.papers
              /\ calls' = calls \o <<"search_semantic_scholar">>
                          \o (IF out.mocked THEN <<"_generate_mock_papers">> ELSE <<>>)
    /\ pc' = "arxiv"
    /\ UNCHANGED <<entry, httpReq, curQuery, maxPer, rnd, axOut, result, analysis, response,
                   others>>

\* lines 192-197: the call of search_arxiv_simple, which answers resp
CallArxiv ==
    /\ pc = "arxiv"
    /\ \E resp \in ArxivResponses :
          LET out == search_arxiv_simple(curQuery, maxPer, resp, rnd)
          IN  /\ axOut' = << [papers |-> out, resp |-> resp] >>
              /\ all_papers' = all_papers \o out
    /\ calls' = Append(calls, "search_arxiv_simple")
    /\ pc' = "merge"
    /\ UNCHANGED <<entry, httpReq, curQuery, maxPer, rnd, ssOut, result, analysis, response,
                   others>>

\* the calls of lines 199-214
TailCalls == IF all_papers = <<>> THEN <<"_generate_mock_papers">> ELSE <<>>

\* search_all_sources, called on its own, returns or raises
FinishDirect ==
    /\ pc = "merge" /\ entry = "search_all_sources"
    /\ result' = << search_all_tail(all_papers, curQuery, maxPer, rnd) >>
    /\ calls' = calls \o TailCalls
    /\ pc' = "done"
    /\ UNCHANGED <<entry, httpReq, curQuery, maxPer, rnd, ssOut, axOut, all_papers, analysis,
                   response, others>>

\* app.py lines 101-120: the rest of search_papers
FinishSearch ==
    /\ pc = "merge" /\ entry = "api_search"
    /\ LET res == search_all_tail(all_papers, curQuery, maxPer, rnd)
       IN  /\ result' = <<res>>
           /\ IF res.raised
              THEN /\ response' = <<ServerError(res.exc)>>
                   /\ calls' = calls \o TailCalls
              ELSE /\ \E kw \in KeywordOutcomes, fs \in FieldChoices(res.papers) :
                         response' = << Response(StatusOK, TRUE, <<>>, <<>>, <<res.papers>>,
                                          <<analyze_trends(res.papers, kw, fs, rnd)>>) >>
                   /\ calls' = calls \o TailCalls \o <<"analyze_trends">>
    /\ pc' = "done"
    /\ UNCHANGED <<entry, httpReq, curQuery, maxPer, rnd, ssOut, axOut, all_papers, analysis,
                   others>>

\* research_analyzer.py lines 381-417 and app.py lines 59-69: the rest of
\* generate_comprehensive_analysis and of analyze_research
FinishAnalyze ==
    /\ pc = "merge" /\ entry = "api_analyze"
    /\ LET res == search_all_tail(all_papers, curQuery, maxPer, rnd)
       IN  /\ result' = <<res>>
           /\ \E kw \in KeywordOutcomes, fs \in FieldChoices(res.papers) :
                 analysis' = << generate_comprehensive_analysis(curQuery, res, kw, fs, rnd) >>
           /\ calls' = calls \o TailCalls
                       \o (IF res.raised THEN <<>> ELSE <<"analyze_trends", "identify_gaps">>)
    /\ response' = << Response(StatusOK, TRUE, <<>>, analysis', <<>>, <<>>) >>
    /\ pc' = "done"
    /\ UNCHANGED <<entry, httpReq, curQuery, maxPer, rnd, ssOut, axOut, all_papers, others>>

Next ==
    \/ ApiAnalyze
    \/ ApiSearch
    \/ DirectSearch
    \/ CallSemanticScholar
    \/ CallArxiv
    \/ FinishDirect
    \/ FinishSearch
    \/ FinishAnalyze

Spec == Init /\ [][Next]_vars

-----------------------------------------------------------------------------
(* identify_gaps called on its own: SpecGaps *)

GapWords ==
    { <<"a", "i">>, <<"A", "I">>,
      <<"M", "a", "c", "h", "i", "n", "e", " ", "L", "e", "a", "r", "n", "i", "n", "g">>,
      <<"c", "l", "i", "m", "a", "t", "e">>, <<"C", "l", "i", "m", "a", "t", "e">>,
      <<"e", "n", "v", "i", "r", "o", "n", "m", "e", "n", "t">>,
      <<"h", "e", "a", "l", "t", "h">>, <<"M", "e", "d", "i", "c", "a", "l">>,
      <<"s", "u", "s", "t", "a", "i", "n", "a", "b", "l", "e">>,
      <<"b", "i", "o", "m", "e", "d", "i", "c", "a", "l">>,
      <<"r", "a", "i", "n">>, <<"q", "u", "a", "n", "t", "u", "m">>,
      <<"X", "y", "z">> }

GapQueries == {Join(ws, <<" ">>) : ws \in SeqsUpTo(GapWords, MaxQueryWords) \ {<<>>}}

GapPapers ==
    { <<>>,
      << Paper(PyStr(<<"a", "i">>), 120, PyDate(<<2024>>), "arXiv", PyInt(7), PyList(<<"Physics">>)) >>,
      << Paper(PyStr(<<"c", "l", "i", "m", "a", "t", "e">>), 60, PyDate(<<2021>>), "Semantic Scholar",
               PyNone, PyNone),
         PyInt(3) >> }

InitGaps ==
    /\ gQuery \in GapQueries
    /\ gPapers \in GapPapers
    /\ gResult = <<>>
    /\ KwIdle /\ TrendIdle /\ MainIdle

CallIdentifyGaps ==
    /\ gResult = <<>>
    /\ gResult' = << identify_gaps(gQuery, gPapers) >>
    /\ UNCHANGED <<gQuery, gPapers, kwVars, trendVars, mainVars>>

NextGaps == CallIdentifyGaps

SpecGaps == InitGaps /\ [][NextGaps]_vars

\* the claim's reading of "contains": some position of s starts a copy of w
Occurs(w, s) == \E i \in 1..(Len(s) + 1) : \E j \in (i - 1)..Len(s) : SubSeq(s, i, j) = w

OccursAny(terms, s) == \E k \in 1..Len(terms) : Occurs(terms[k], s)

\* C6: identify_gaps returns the AI/ML lists if the lowercased query contains an
\* AI/ML term, otherwise the climate lists if it contains a climate term, otherwise
\* the health lists if it contains a health term, otherwise 4 generic gaps and 4
\* generic directions that each contain the raw query; cross_disciplinary and
\* impact_areas are the same 4 fixed strings in every case, and the result is the
\* same for every papers argument.
C6_GapsByPrecedence ==
    gResult # <<>> =>
        LET r == gResult[1]
            ql == Lower(gQuery)
            ai == OccursAny(AITerms, ql)
            cl == OccursAny(ClimateTerms, ql)
            he == OccursAny(HealthTerms, ql)
        IN  /\ ai => r.gaps = AIGaps /\ r.directions = AIDirections
            /\ ~ai /\ cl => r.gaps = ClimateGaps /\ r.directions = ClimateDirections
            /\ ~ai /\ ~cl /\ he => r.gaps = HealthGaps /\ r.directions = HealthDirections
            /\ ~ai /\ ~cl /\ ~he =>
                   /\ Len(r.gaps) = 4 /\ Len(r.directions) = 4
                   /\ \A i \in 1..4 : Occurs(gQuery, r.gaps[i]) /\ Occurs(gQuery, r.directions[i])
            /\ r.cross_disciplinary = CrossDisciplinary
            /\ r.impact_areas = ImpactAreas
            /\ \A ps \in GapPapers : identify_gaps(gQuery, ps) = r

\* a climate query with an upper-case letter and no AI/ML term was answered, with
\* a non-empty papers argument
C6_Witness ==
    /\ gResult # <<>>
    /\ gPapers # <<>>
    /\ gQuery # Lower(gQuery)
    /\ ~OccursAny(AITerms, Lower(gQuery))
    /\ OccursAny(ClimateTerms, Lower(gQuery))
    /\ gResult[1].gaps = ClimateGaps

\* the terms of a bucket's list, as a set
TermSet(terms) == {terms[k] : k \in 1..Len(terms)}

\* C13: a query that consists of exactly one climate term ("climate",
\* "environment", "sustainable") gets the climate gaps and directions, and a query
\* that consists of exactly one health term ("health", "medical", "biomedical")
\* gets the health gaps and directions: no bucket term is shadowed by the
\* substring test of a bucket of higher precedence.
C13_BucketTermsSelectOwnBucket ==
    gResult # <<>> =>
        /\ gQuery \in TermSet(ClimateTerms) =>
               gResult[1].gaps = ClimateGaps /\ gResult[1].directions = ClimateDirections
        /\ gQuery \in TermSet(HealthTerms) =>
               gResult[1].gaps = HealthGaps /\ gResult[1].directions = HealthDirections

-----------------------------------------------------------------------------
(* extract_keywords called on its own: SpecKeywords *)

KeywordVocabulary ==
    { <<"a", "n", "a", "l", "y", "s", "i", "s">>,
      <<"R", "e", "s", "e", "a", "r", "c", "h">>,
      <<"n", "e", "t", "w", "o", "r", "k", "s">>,
      <<"N", "e", "t", "w", "o", "r", "k", "s">>,
      <<"d", "e", "e", "p", "-", "l", "e", "a", "r", "n", "i", "n", "g">>,
      <<"g", "e", "n", "e">>,
      <<"r", "n", "a">>,
      <<"g", "e", "n", "e", "1">> }

KeywordTexts == {Join(ws, <<" ">>) : ws \in SeqsUpTo(KeywordVocabulary, MaxTextWords)}

InitKeywords ==
    /\ kText \in KeywordTexts
    /\ kNum \in 0..MaxNum
    /\ kResult = <<>>
    /\ GapIdle /\ TrendIdle /\ MainIdle

CallExtractKeywords ==
    /\ kResult = <<>>
    /\ kResult' = << extract_keywords(kText, kNum) >>
    /\ UNCHANGED <<kText, kNum, gapVars, trendVars, mainVars>>

NextKeywords == CallExtractKeywords

SpecKeywords == InitKeywords /\ [][NextKeywords]_vars

\* the tokens the claim speaks of: the maximal letter-only runs of at least 4
\* letters of the lowercased text that are not stopwords
RunAt(s, i, j) ==
    /\ i <= j
    /\ \A k \in i..j : IsLetter(s[k])
    /\ (i = 1 \/ ~IsWordChar(LowerChar(s[i - 1])))
    /\ (j = Len(s) \/ ~IsWordChar(LowerChar(s[j + 1])))

KeywordTokens(s) ==
    { Lower(SubSeq(s, i, j)) : <<i, j>> \in
        { ij \in (1..Len(s)) \X (1..Len(s)) : RunAt(s, ij[1], ij[2]) /\ ij[2] - ij[1] + 1 >= 4 } }
    \ common_words

\* C5 as stated: extract_keywords(text, n) returns at most n elements, for every
\* text and every n >= 0.
C5_AtMostN == kResult # <<>> => Len(kResult[1]) <= kNum

\* C5 as amended: when the text has at least 20 characters and at least one token
\* that is not a stopword, the result has at most n elements, all of them such
\* tokens and no two equal; otherwise the result is one of the two fixed 4-element
\* fallback lists whatever n is, so the result never has more than max(n, 4)
\* elements.
C5_AtMostNOrFallback ==
    kResult # <<>> =>
        LET r == kResult[1]
            toks == KeywordTokens(kText)
        IN  IF Len(kText) >= 20 /\ toks # {}
            THEN /\ Len(r) <= kNum
                 /\ Len(r) <= Cardinality(toks)
                 /\ \A i \in 1..Len(r) : r[i] \in toks
                 /\ \A i, j \in 1..Len(r) : r[i] = r[j] => i = j
            ELSE /\ r \in {KeywordFallbackShort, KeywordFallbackEmpty}
                 /\ Len(r) = 4

\* a text of 20 characters or more with more distinct tokens than n > 0 was
\* ranked and cut to n keywords
C5_Witness ==
    /\ kResult # <<>>
    /\ Len(kText) >= 20
    /\ kNum > 0
    /\ Cardinality(KeywordTokens(kText)) > kNum
    /\ Len(kResult[1]) = kNum

-----------------------------------------------------------------------------
(* analyze_trends called on its own: SpecTrends *)

\* the elements of the papers argument: records as the pipeline builds them, a
\* record with null citations and fields, a record with keys missing, a record
\* whose published is a number, a record whose citations is a str, and a number
TrendElements ==
    { Paper(PyStr(<<"A", "b">>), 400, PyDate(<<2024>>), "Semantic Scholar", PyInt(12),
            PyList(<<"Computer Science">>)),
      Paper(PyStr(<<"C", "d">>), 5, PyDate(<<>>), "arXiv", PyInt(300),
            PyList(<<"Physics", "Computer Science", "Mathematics">>)),
      Paper(PyStr(<<"A", "B">>), 131, PyDate(<<>>), "Semantic Scholar", PyNone, PyNone),
      Paper(PyStr(<<"a">>), 0, Missing, "Unknown", Missing, Missing),
      Paper(PyStr(<<"b">>), 60, PyInt(2021), "arXiv", PyInt(1), PyList(<<>>)),
      Paper(PyStr(<<"c">>), 60, PyDate(<<2021>>), "arXiv", PyStr(<<"7">>), PyList(<<>>)),
      PyInt(3) }

InitTrends ==
    /\ tPapers \in SeqsUpTo(TrendElements, MaxTrendPapers)
    /\ tResult = <<>>
    /\ pc = "off" /\ entry = "" /\ httpReq = NoRequest /\ curQuery = <<>> /\ maxPer = 0
    /\ rnd \in 0..MaxSeed
    /\ ssOut = <<>> /\ axOut = <<>> /\ all_papers = <<>> /\ calls = <<>>
    /\ result = <<>> /\ analysis = <<>> /\ response = <<>>
    /\ GapIdle /\ KwIdle

CallAnalyzeTrends ==
    /\ tResult = <<>>
    /\ \E kw \in KeywordOutcomes,
          fs \in (IF \E i \in 1..Len(tPapers) : TrendPaperRaises(tPapers[i])
                  THEN {{}} ELSE FieldChoices(tPapers)) :
          tResult' = << analyze_trends(tPapers, kw, fs, rnd) >>
    /\ UNCHANGED <<tPapers, mainVars, gapVars, kwVars>>

NextTrends == CallAnalyzeTrends

SpecTrends == InitTrends /\ [][NextTrends]_vars

\* processing this element fails, in the claim's examples: an element that is no
\* mapping, or a record whose citations or fields value is null
TrendElementFails(p) ==
    \/ p.t # "dict"
    \/ p.t = "dict" /\ (p.citations.t = "null" \/ p.fields.t = "null")

\* C9: analyze_trends always returns a summary: for the empty list the zero-state
\* one (total_papers 0, sources ["Demo Data"], average_citations 0, no recent
\* years), and when processing an element fails the fixed fallback with
\* total_papers equal to the length of the list.
C9_TrendsNeverRaise ==
    tResult # <<>> =>
        LET r == tResult[1]
        IN  /\ tPapers = <<>> =>
                  /\ r.total_papers = 0
                  /\ r.sources = {"Demo Data"}
                  /\ r.average_citations = 0
                  /\ r.recent_years = <<>>
            /\ (\E i \in 1..Len(tPapers) : TrendElementFails(tPapers[i])) =>
                  /\ r.total_papers = Len(tPapers)
                  /\ r.sources = {"Research Databases"}
                  /\ r.average_citations = 455
                  /\ r.recent_years = <<2023, 2022, 2021>>
                  /\ r.fields = << {"Computer Science", "Engineering", "Science"} >>
                  /\ Len(r.top_keywords) = 4
            /\ r.total_papers = Len(tPapers)

\* a list of two elements, one a record with null citations, got the fallback
C9_Witness ==
    /\ tResult # <<>>
    /\ Len(tPapers) = 2
    /\ \E i \in 1..2 : tPapers[i].t = "dict" /\ tPapers[i].citations.t = "null"
    /\ \E i \in 1..2 : ~TrendElementFails(tPapers[i])
    /\ tResult[1].sources = {"Research Databases"}

-----------------------------------------------------------------------------
(* Properties of Spec *)

IsApi == entry \in {"api_analyze", "api_search"}
Called(name) == \E i \in 1..Len(calls) : calls[i] = name
Returned == result # <<>> /\ ~result[1].raised

\* a paper made by the mock generator
IsMock(p) == p.source = "Research Database"

\* C1: the list search_all_sources returns has at most max_per_source*2 records and
\* no two of them have titles that are equal after lowercasing, whatever the two
\* source clients produced.
C1_BoundedAndDistinct ==
    Returned =>
        LET ps == result[1].papers
        IN  /\ Len(ps) <= maxPer * 2
            /\ \A i, j \in 1..Len(ps) :
                  Lower(ps[i].title.v) = Lower(ps[j].title.v) => i = j

\* both sources answered with records, two of them with titles that differ only
\* in case, and search_all_sources returned fewer records than it merged
C1_Witness ==
    /\ Returned
    /\ ~ssOut[1].mocked /\ ssOut[1].papers # <<>> /\ axOut[1].papers # <<>>
    /\ \E i, j \in 1..Len(all_papers) :
          /\ i < j
          /\ all_papers[i].title.v # all_papers[j].title.v
          /\ Lower(all_papers[i].title.v) = Lower(all_papers[j].title.v)
    /\ Len(result[1].papers) < Len(all_papers)

\* C2: generate_comprehensive_analysis always returns a dict; when
\* search_all_sources raised, the dict is the degraded one: total_papers_analyzed 0,
\* no sample papers, the one gap "Analysis temporarily unavailable", empty
\* cross_disciplinary and impact_areas, and a non-empty error string.
C2_DegradedNotRaised ==
    (pc = "done" /\ Called("generate_comprehensive_analysis")) =>
        /\ analysis # <<>>
        /\ response # <<>> /\ response[1].status = 200 /\ response[1].analysis = analysis
        /\ result[1].raised =>
              /\ analysis[1].total_papers_analyzed = 0
              /\ analysis[1].sample_papers = <<>>
              /\ analysis[1].gaps_analysis.gaps = << <<"Analysis temporarily unavailable">> >>
              /\ analysis[1].gaps_analysis.cross_disciplinary = <<>>
              /\ analysis[1].gaps_analysis.impact_areas = <<>>
              /\ analysis[1].error # <<>>
              /\ analysis[1].error[1] # ""
        /\ ~result[1].raised => analysis[1].error = <<>>

\* search_all_sources raised inside generate_comprehensive_analysis
C2_Witness ==
    /\ pc = "done" /\ Called("generate_comprehensive_analysis")
    /\ result[1].raised
    /\ analysis # <<>>

\* the request body is a JSON object whose query is missing, empty or only whitespace
BlankQuery ==
    /\ httpReq.body.t = "dict"
    /\ \/ httpReq.body.query.t = "absent"
       \/ /\ httpReq.body.query.t = "str"
          /\ \A i \in 1..Len(httpReq.body.query.v) : httpReq.body.query.v[i] = " "

\* C3: a request to /api/analyze or /api/search whose query is missing, empty or
\* only whitespace is answered 400 with success false and the error
\* "Query is required", and no analyzer method is invoked.
C3_BlankQueryIs400 ==
    (IsApi /\ BlankQuery) =>
        /\ pc = "done"
        /\ response # <<>>
        /\ response[1].status = 400
        /\ response[1].success = FALSE
        /\ response[1].error = <<"Query is required">>
        /\ calls = <<>>

\* a query of whitespace only, in a body declared as JSON, was answered
C3_Witness ==
    /\ IsApi /\ BlankQuery
    /\ httpReq.is_json
    /\ httpReq.body.query.t = "str" /\ Len(httpReq.body.query.v) > 1
    /\ response # <<>>

\* the request body does not parse, or is a JSON value that is no object
MalformedBody == httpReq.body.t \in {"garbage", "null", "list"}

\* C4: a malformed request body is treated as an empty object: the request is
\* answered 400 "Query is required", never 500.
C4_MalformedBodyIs400 ==
    (IsApi /\ MalformedBody) =>
        /\ response # <<>>
        /\ response[1].status = 400
        /\ response[1].error = <<"Query is required">>

\* the answer of the scholarly-graph source is a failure in the claim's sense:
\* an exception or timeout, a status other than 200, a body that is no JSON
\* object with a data list, or a malformed element among those read
SSFailed(resp, n) ==
    \/ resp.kind \in {"exception", "status", "badjson"}
    \/ /\ resp.kind = "json"
       /\ \/ resp.body.t # "dict"
          \/ /\ resp.body.t = "dict" /\ resp.body.data.t = "null"
          \/ /\ resp.body.t = "dict" /\ resp.body.data.t = "list"
             /\ \E i \in 1..Len(resp.body.data.v) :
                   /\ i <= n
                   /\ \/ resp.body.data.v[i].t # "dict"
                      \/ resp.body.data.v[i].authors.t = "null"

\* C7: the two source clients return a list of at most max_results records
\* whatever the network call does; on a failure the preprint client returns the
\* empty list and the scholarly-graph client returns mock generator records.
C7_ClientsDegrade ==
    /\ ssOut # <<>> =>
          /\ Len(ssOut[1].papers) <= maxPer
          /\ SSFailed(ssOut[1].resp, maxPer) =>
                /\ ssOut[1].papers # <<>>
                /\ \A i \in 1..Len(ssOut[1].papers) : IsMock(ssOut[1].papers[i])
          /\ ~SSFailed(ssOut[1].resp, maxPer) =>
                \A i \in 1..Len(ssOut[1].papers) : ssOut[1].papers[i].source = "Semantic Scholar"
    /\ axOut # <<>> =>
          /\ Len(axOut[1].papers) <= maxPer
          /\ axOut[1].resp.kind # "text" => axOut[1].papers = <<>>
          /\ \A i \in 1..Len(axOut[1].papers) : axOut[1].papers[i].source = "arXiv"

\* a malformed element made the scholarly-graph client fall back to mock records,
\* and the preprint source answered with more entries than max_results
C7_Witness ==
    /\ ssOut # <<>> /\ axOut # <<>>
    /\ ssOut[1].resp.kind = "json" /\ SSFailed(ssOut[1].resp, maxPer)
    /\ ssOut[1].mocked
    /\ axOut[1].resp.kind = "text"
    /\ Len(axOut[1].resp.entries) > maxPer
    /\ Len(axOut[1].papers) = maxPer

\* C8: every record search_all_sources returns has an abstract of at most 400
\* characters.
C8_AbstractsAtMost400 ==
    Returned => \A i \in 1..Len(result[1].papers) : result[1].papers[i].abstract <= 400

\* the scholarly-graph source answered 200 with no element in its result list
SSEmptyAnswer ==
    /\ ssOut # <<>>
    /\ ssOut[1].resp.kind = "json"
    /\ ssOut[1].resp.body.t = "dict"
    /\ \/ ssOut[1].resp.body.data.t = "absent"
       \/ ssOut[1].resp.body.data.t = "list" /\ ssOut[1].resp.body.data.v = <<>>

\* C10 as stated: on a 200 answer with an empty result list
\* search_semantic_scholar returns mock records, not an empty list.
C10_EmptyAnswerIsMocked ==
    SSEmptyAnswer => ssOut[1].papers # <<>> /\ ssOut[1].mocked

\* C10 as amended: on a 200 answer with an empty result list
\* search_semantic_scholar returns the empty list and does not call the mock
\* generator; search_all_sources then returns mock records exactly when the
\* preprint client returned nothing as well.
C10_EmptyAnswerIsEmpty ==
    SSEmptyAnswer =>
        /\ ssOut[1].papers = <<>>
        /\ ~ssOut[1].mocked
        /\ pc \in {"arxiv", "merge"} => ~Called("_generate_mock_papers")
        /\ Returned =>
              /\ result[1].papers # <<>>
              /\ axOut[1].papers = <<>> =>
                    /\ Called("_generate_mock_papers")
                    /\ \A i \in 1..Len(result[1].papers) : IsMock(result[1].papers[i])
              /\ axOut[1].papers # <<>> =>
                    /\ ~Called("_generate_mock_papers")
                    /\ \A i \in 1..Len(result[1].papers) : ~IsMock(result[1].papers[i])

\* the scholarly-graph client returned the empty list on an empty 200 answer, the
\* preprint client returned nothing, and search_all_sources returned mock records
C10_Witness ==
    /\ SSEmptyAnswer
    /\ ssOut[1].resp.body.data.t = "list"
    /\ ssOut[1].papers = <<>>
    /\ axOut # <<>> /\ axOut[1].papers = <<>>
    /\ Returned
    /\ result[1].papers # <<>>

-----------------------------------------------------------------------------
(* Properties of Spec: the two source calls and the merge of search_all_sources *)

\* how often, and where first, a method occurs in the log of calls
CountCalls(name) == Cardinality({i \in 1..Len(calls) : calls[i] = name})
FirstCall(name) == CHOOSE i \in 1..Len(calls) : calls[i] = name /\ \A j \in 1..(i - 1) : calls[j] # name

\* the mock generator was called after the preprint client: lines 199-201
FallbackTaken ==
    /\ Called("search_arxiv_simple")
    /\ \E i \in 1..Len(calls) : i > FirstCall("search_arxiv_simple") /\ calls[i] = "_generate_mock_papers"

\* C11: in every run of search_all_sources the scholarly-graph client is called
\* first and the preprint client exactly once afterwards, whatever the first call
\* came back with (records, nothing, or an exception during the call); the merged
\* list is the records of the first call followed by the records of the second,
\* so an exception in one call leaves the records of the other in it; and the
\* mock generator fallback, which asks for max_per_source*2 records, is taken
\* exactly when the merged list of both calls is empty.
C11_BothSourcesThenFallback ==
    /\ pc \in {"idle", "ss"} =>
          ~Called("search_semantic_scholar") /\ ~Called("search_arxiv_simple")
    /\ pc = "arxiv" =>
          /\ CountCalls("search_semantic_scholar") = 1
          /\ ~Called("search_arxiv_simple")
          /\ ssOut # <<>> /\ all_papers = ssOut[1].papers
    /\ (pc = "merge" \/ (pc = "done" /\ Called("search_all_sources"))) =>
          /\ CountCalls("search_semantic_scholar") = 1
          /\ CountCalls("search_arxiv_simple") = 1
          /\ FirstCall("search_all_sources") < FirstCall("search_semantic_scholar")
          /\ FirstCall("search_semantic_scholar") < FirstCall("search_arxiv_simple")
          /\ ssOut # <<>> /\ axOut # <<>>
          /\ all_papers = ssOut[1].papers \o axOut[1].papers
    /\ pc = "merge" => ~FallbackTaken
    /\ (pc = "done" /\ Called("search_all_sources")) =>
          /\ result # <<>>
          /\ FallbackTaken <=> (all_papers = <<>>)
          /\ FallbackTaken =>
                /\ Returned
                /\ Len(result[1].papers) = Min(maxPer * 2, Len(mock_titles(curQuery, 1)))
                /\ \A i \in 1..Len(result[1].papers) : IsMock(result[1].papers[i])
          /\ (all_papers # <<>> /\ Returned) =>
                \A i \in 1..Len(result[1].papers) :
                   \E j \in 1..Len(all_papers) : result[1].papers[i] = all_papers[j]

\* the request of the scholarly-graph client raised, the preprint client was still
\* called and answered with records, and search_all_sources returned a list that
\* holds a preprint record next to the mock records of the first client
C11_Witness ==
    /\ pc = "done" /\ Returned
    /\ ssOut[1].resp.kind = "exception"
    /\ ssOut[1].mocked
    /\ axOut[1].papers # <<>>
    /\ ~FallbackTaken
    /\ \E i \in 1..Len(result[1].papers) : result[1].papers[i].source = "arXiv"
    /\ \E i \in 1..Len(result[1].papers) : IsMock(result[1].papers[i])

\* the list the loop of lines 204-211 runs over: the merged list, or the mock
\* records of line 201 when the merged list is empty
ListAtLoop ==
    IF all_papers = <<>> THEN generate_mock_papers(curQuery, maxPer * 2, rnd) ELSE all_papers

\* the positions of l whose lowercased title occurs at no earlier position
FirstOccurrences(l) ==
    {i \in 1..Len(l) : \A j \in 1..(i - 1) : Lower(l[j].title.v) # Lower(l[i].title.v)}

\* the records of l at the positions S, in the order of l
Kept(l, S) ==
    [k \in 1..Cardinality(S) |-> l[CHOOSE i \in S : Cardinality({j \in S : j < i}) = k - 1]]

\* C12: what search_all_sources returns is the first max_per_source*2 elements of
\* the merged list (scholarly-graph records, then preprint records) from which
\* every record whose lowercased title equals that of an earlier record has been
\* removed: the first record of each title is the one kept, the kept records are
\* in the order they had in the merged list, and the removal precedes the cut.
C12_FirstOccurrencesThenCut ==
    Returned =>
        /\ result[1].papers = Take(Kept(ListAtLoop, FirstOccurrences(ListAtLoop)), maxPer * 2)
        /\ all_papers # <<>> => all_papers = ssOut[1].papers \o axOut[1].papers

\* a preprint record whose title differs only in case from that of a
\* scholarly-graph record was dropped, the scholarly-graph record was kept, and a
\* later preprint record was kept behind it
C12_Witness ==
    /\ Returned
    /\ ~ssOut[1].mocked
    /\ \E i \in 1..Len(ssOut[1].papers), j \in 1..Len(axOut[1].papers) :
          /\ ssOut[1].papers[i].title.v # axOut[1].papers[j].title.v
          /\ Lower(ssOut[1].papers[i].title.v) = Lower(axOut[1].papers[j].title.v)
          /\ \E k \in 1..Len(result[1].papers) : result[1].papers[k] = ssOut[1].papers[i]
          /\ \A k \in 1..Len(result[1].papers) : result[1].papers[k] # axOut[1].papers[j]
    /\ result[1].papers[Len(result[1].papers)].source = "arXiv"
    /\ Len(result[1].papers) < Len(all_papers)

=============================================================================
